---- MODULE Spec2Model ----
(***************************************************************************)
(* Model of the Speckle MCP server (src/speckle_server.py): the graph      *)
(* serializer SpeckleObjectConverter, the path navigator                   *)
(* get_property_by_path and the process-wide SpeckleClientSingleton.       *)
(*                                                                         *)
(* Python values live in a heap: a function from node ids to node records. *)
(* Strings that the code inspects character by character (attribute names, *)
(* mapping keys, paths) are sequences of one-character strings.            *)
(***************************************************************************)
EXTENDS Integers, Sequences, FiniteSets, TLC

VARIABLES heap, call, instance, lock, created, pcs, speckle_token, server

vars == <<heap, call, instance, lock, created, pcs, speckle_token, server>>

\* The state of SpeckleClientSingleton and of its callers.
clientVars == <<instance, lock, created, pcs, speckle_token>>

(***************************************************************************)
(* Bounds of the model.                                                    *)
(***************************************************************************)
\* Largest max_depth argument tried by the serializer calls.
MaxDepthArg == 2

\* Depth of the interpreter's call stack at which Python raises
\* RecursionError (sys.getrecursionlimit(), scaled down).
RecursionLimit == 20

(***************************************************************************)
(* Program constants.                                                      *)
(***************************************************************************)
\* limit = 5 in _process_list and _process_dict.
TruncationLimit == 5

(***************************************************************************)
(* Names used as attribute names and mapping keys.                         *)
(***************************************************************************)
KId == <<"i", "d">>
KType == <<"_", "t", "y", "p", "e">>
KNote == <<"_", "n", "o", "t", "e">>
KPriv == <<"_", "p">>
KToDict == <<"t", "o", "_", "d", "i", "c", "t">>
KPop == <<"p", "o", "p">>

\* key.startswith("_")
StartsWithUnderscore(key) == Len(key) > 0 /\ key[1] = "_"

(***************************************************************************)
(* Output values.                                                          *)
(***************************************************************************)
VNull == [t |-> "null"]
VScalar(s) == [t |-> "scalar", v |-> s]
VList(items) == [t |-> "list", items |-> items]
VDict(keys, items) == [t |-> "dict", keys |-> keys, items |-> items]
\* A live Python object (not a JSON value) left in a result.
VRaw(n) == [t |-> "raw", node |-> n]
\* The call did not return: exception exc propagated out of it.
VRaise(exc) == [t |-> "raise", exc |-> exc]

IsRaise(v) == v.t = "raise"

\* f"...{len(items)-limit} more items"
NoteText(n) == "..." \o ToString(n) \o " more items"

\* {"id": <id>, "_type": "reference"}
ReferenceStub(id) == VDict(<<KId, KType>>, <<id, VScalar("reference")>>)

\* result[key] = value on an insertion-ordered dict
DictPut(d, key, value) ==
    IF \E i \in 1..Len(d.keys) : d.keys[i] = key
    THEN LET i == CHOOSE j \in 1..Len(d.keys) : d.keys[j] = key
         IN VDict(d.keys, [d.items EXCEPT ![i] = value])
    ELSE VDict(Append(d.keys, key), Append(d.items, value))

(***************************************************************************)
(* The heap of input values.                                               *)
(*   kind : "object" (has __dict__), "list", "dict", "scalar", "other"     *)
(*          (no __dict__, not list/dict/scalar: a set, a tuple, a method)  *)
(*   td   : the object's to_dict method: "none", "ok", "raises"            *)
(*   keys, kids : the entries of __dict__ (object) or of the mapping       *)
(*          (dict), in insertion order; kids alone are a list's elements   *)
(*   val  : a scalar's value                                               *)
(*   hidden : names of __dict__ entries that hasattr() does not see        *)
(***************************************************************************)
Node(kind, td, keys, kids, val) ==
    [kind |-> kind, td |-> td, keys |-> keys, kids |-> kids, val |-> val, hidden |-> {}]

ScalarNode(v) == Node("scalar", "none", <<>>, <<>>, v)

(***************************************************************************)
(* Heap layout.  Nodes 1..3 are composite values; node 4 is a string, node *)
(* 5 a value of unsupported type (a set, a bound method), node 6 is None   *)
(* and nodes 7.. are distinct strings.                                     *)
(***************************************************************************)
Composite == {1, 2, 3}
StrLeaf == 4
OtherLeaf == 5
NoneLeaf == 6
PadLeaves == 7..13
NodeIds == Composite \cup {StrLeaf, OtherLeaf, NoneLeaf} \cup PadLeaves

\* getattr(obj, name, None) / dict.get(name): the entry's node, 0 when absent
EntryOf(node, name) ==
    IF \E i \in 1..Len(node.keys) : node.keys[i] = name
    THEN node.kids[CHOOSE i \in 1..Len(node.keys) : node.keys[i] = name]
    ELSE 0

\* A Python value handed over as it is, without conversion: scalars, lists
\* and dicts of such are JSON values, anything else (and any container that
\* contains itself) is a live object.
RECURSIVE RawOut(_, _, _)
RawOut(h, n, seen) ==
    IF n = 0 THEN VNull
    ELSE IF n \in seen THEN VRaw(n)
    ELSE LET node == h[n]
             sub == [i \in 1..Len(node.kids) |-> RawOut(h, node.kids[i], seen \cup {n})]
         IN CASE node.kind = "scalar" -> node.val
              [] node.kind = "list" -> VList(sub)
              [] node.kind = "dict" -> VDict(node.keys, sub)
              [] OTHER -> VRaw(n)

(***************************************************************************)
(* SpeckleObjectConverter.  Every operator takes the heap h, the value n,  *)
(* the depth counter, max_depth, include_children and f, the depth of the  *)
(* call stack at the call (RecursionError is raised past RecursionLimit).  *)
(***************************************************************************)
RECURSIVE ConvertToDict(_, _, _, _, _, _)
RECURSIVE ProcessValue(_, _, _, _, _, _)
RECURSIVE ProcessList(_, _, _, _, _, _)
RECURSIVE ProcessDict(_, _, _, _, _, _)
RECURSIVE ProcessDictResult(_, _, _, _, _, _)
RECURSIVE WalkFields(_, _, _, _, _, _, _, _)
RECURSIVE ConvertFirst(_, _, _, _, _, _, _, _)

\* for key, value in items: if key.startswith("_"): continue;
\*     result[key] = _process_value(value, depth, ...)
\* i is the next entry, result the mapping built so far; an exception raised
\* for an entry ends the loop.
WalkFields(h, node, i, result, depth, max_depth, include_children, f) ==
    IF i > Len(node.keys) THEN result
    ELSE IF StartsWithUnderscore(node.keys[i])
    THEN WalkFields(h, node, i + 1, result, depth, max_depth, include_children, f)
    ELSE LET value == ProcessValue(h, node.kids[i], depth, max_depth, include_children, f + 1)
         IN IF IsRaise(value) THEN value
            ELSE WalkFields(h, node, i + 1, DictPut(result, node.keys[i], value),
                            depth, max_depth, include_children, f)

\* getattr(speckle_object, "id", None)
GetAttrId(h, n) ==
    IF h[n].kind = "object" THEN RawOut(h, EntryOf(h[n], KId), {}) ELSE VNull

\* The custom conversion without the depth check of its first lines.
ManualConvertNoDepthCheck(h, n, depth, max_depth, include_children, f) ==
    LET node == h[n]
    IN CASE node.kind = "object" ->
               WalkFields(h, node, 1, VDict(<<>>, <<>>), depth, max_depth, include_children, f)
         [] node.kind = "scalar" -> node.val
         [] node.kind = "list" ->
               ProcessList(h, n, depth, max_depth, include_children, f + 1)
         [] node.kind = "dict" ->
               ProcessDict(h, n, depth, max_depth, include_children, f + 1)
         [] OTHER -> VScalar("str(" \o ToString(n) \o ")")

\* The depth check and the custom conversion, after the to_dict attempt.
ManualConvert(h, n, depth, max_depth, include_children, f) ==
    LET node == h[n]
    IN IF depth > max_depth /\ include_children = FALSE
       THEN ReferenceStub(GetAttrId(h, n))
       ELSE CASE node.kind = "object" ->
                    WalkFields(h, node, 1, VDict(<<>>, <<>>), depth, max_depth, include_children, f)
              [] node.kind = "scalar" -> node.val
              [] node.kind = "list" ->
                    ProcessList(h, n, depth, max_depth, include_children, f + 1)
              [] node.kind = "dict" ->
                    ProcessDict(h, n, depth, max_depth, include_children, f + 1)
              [] OTHER -> VScalar("str(" \o ToString(n) \o ")")

\* What the try block yields: the post-processed to_dict() result, or the
\* exception that to_dict() or the post-processing raised.
TryToDict(h, n, depth, max_depth, include_children, f) ==
    IF h[n].td = "ok"
    THEN ProcessDictResult(h, n, depth, max_depth, include_children, f + 1)
    ELSE VRaise("to_dict")

\* convert_to_dict without the try/except around to_dict(): an exception
\* raised by the shortcut ends the call.
ConvertToDictNoFallback(h, n, depth, max_depth, include_children, f) ==
    IF f > RecursionLimit THEN VRaise("RecursionError")
    ELSE IF h[n].td = "none"
    THEN ManualConvert(h, n, depth, max_depth, include_children, f)
    ELSE TryToDict(h, n, depth, max_depth, include_children, f)

ConvertToDict(h, n, depth, max_depth, include_children, f) ==
    IF f > RecursionLimit THEN VRaise("RecursionError")
    ELSE IF h[n].td = "none"
    THEN ManualConvert(h, n, depth, max_depth, include_children, f)
    ELSE LET shortcut == TryToDict(h, n, depth, max_depth, include_children, f)
         IN IF IsRaise(shortcut)
            THEN ManualConvert(h, n, depth, max_depth, include_children, f)
            ELSE shortcut

ProcessValue(h, n, depth, max_depth, include_children, f) ==
    IF f > RecursionLimit THEN VRaise("RecursionError")
    ELSE CASE h[n].kind = "scalar" -> h[n].val
           [] h[n].kind = "list" ->
                 ProcessList(h, n, depth, max_depth, include_children, f + 1)
           [] h[n].kind = "dict" ->
                 ProcessDict(h, n, depth, max_depth, include_children, f + 1)
           [] OTHER ->
                 ConvertToDict(h, n, depth + 1, max_depth, include_children, f + 1)

\* convert_to_dict(item, depth+1, ...) for item in items[:limit]
\* i is the next item, acc the values so far.
ConvertFirst(h, kids, i, acc, depth, max_depth, include_children, f) ==
    IF i > Len(kids) \/ i > TruncationLimit THEN VList(acc)
    ELSE LET value == ConvertToDict(h, kids[i], depth + 1, max_depth, include_children, f + 1)
         IN IF IsRaise(value) THEN value
            ELSE ConvertFirst(h, kids, i + 1, Append(acc, value),
                              depth, max_depth, include_children, f)

ProcessList(h, n, depth, max_depth, include_children, f) ==
    IF f > RecursionLimit THEN VRaise("RecursionError")
    ELSE LET items == h[n].kids
             result == ConvertFirst(h, items, 1, <<>>, depth, max_depth, include_children, f)
         IN IF Len(items) = 0 THEN VList(<<>>)
            ELSE IF IsRaise(result) THEN result
            ELSE IF Len(items) > TruncationLimit
            THEN VList(Append(result.items,
                     VDict(<<KNote>>, <<VScalar(NoteText(Len(items) - TruncationLimit))>>)))
            ELSE result

ProcessDict(h, n, depth, max_depth, include_children, f) ==
    IF f > RecursionLimit THEN VRaise("RecursionError")
    ELSE LET data == h[n]
             vals == ConvertFirst(h, data.kids, 1, <<>>, depth, max_depth, include_children, f)
         IN IF Len(data.kids) = 0 THEN VDict(<<>>, <<>>)
            ELSE IF IsRaise(vals) THEN vals
            ELSE IF Len(data.kids) > TruncationLimit
            THEN DictPut(VDict(SubSeq(data.keys, 1, Len(vals.items)), vals.items), KNote,
                     VScalar(NoteText(Len(data.kids) - TruncationLimit)))
            ELSE VDict(SubSeq(data.keys, 1, Len(vals.items)), vals.items)

\* data is the mapping that to_dict() returned for object n: its attributes.
ProcessDictResult(h, n, depth, max_depth, include_children, f) ==
    IF f > RecursionLimit THEN VRaise("RecursionError")
    ELSE IF depth > max_depth /\ include_children = FALSE
    THEN ReferenceStub(RawOut(h, EntryOf(h[n], KId), {}))
    ELSE WalkFields(h, h[n], 1, VDict(<<>>, <<>>), depth, max_depth, include_children, f)

RECURSIVE ConvertValue(_, _, _)
RECURSIVE ConvertValueEach(_, _, _, _, _, _)

\* convert_value(v) for each entry or element, in order; skip says whether
\* names starting with "_" are left out (the __dict__ walk).
ConvertValueEach(h, node, i, acc, skip, f) ==
    IF i > Len(node.kids) THEN acc
    ELSE IF skip /\ StartsWithUnderscore(node.keys[i])
    THEN ConvertValueEach(h, node, i + 1, acc, skip, f)
    ELSE LET value == ConvertValue(h, node.kids[i], f + 1)
         IN IF IsRaise(value) THEN value
            ELSE ConvertValueEach(h, node, i + 1,
                    IF node.kind = "list" THEN VList(Append(acc.items, value))
                    ELSE DictPut(acc, node.keys[i], value),
                    skip, f)

\* return value.to_dict(): the mapping of the object's attributes, as it is
ToDictResult(h, n) ==
    VDict(h[n].keys, [i \in 1..Len(h[n].kids) |-> RawOut(h, h[n].kids[i], {})])

ConvertValue(h, n, f) ==
    IF f > RecursionLimit THEN VRaise("RecursionError")
    ELSE LET node == h[n]
         IN IF node.td = "ok" THEN ToDictResult(h, n)
            ELSE CASE node.kind = "object" ->
                        ConvertValueEach(h, node, 1, VDict(<<>>, <<>>), TRUE, f)
                   [] node.kind = "list" ->
                        ConvertValueEach(h, node, 1, VList(<<>>), FALSE, f)
                   [] node.kind = "dict" ->
                        ConvertValueEach(h, node, 1, VDict(<<>>, <<>>), FALSE, f)
                   [] node.kind = "scalar" -> node.val
                   [] OTHER -> VScalar("str(" \o ToString(n) \o ")")

\* A JSON value: a scalar, or a sequence or mapping built from JSON values.
RECURSIVE JsonSafe(_)
JsonSafe(v) ==
    CASE v.t \in {"null", "scalar"} -> TRUE
      [] v.t \in {"list", "dict"} -> \A i \in 1..Len(v.items) : JsonSafe(v.items[i])
      [] OTHER -> FALSE


(***************************************************************************)
(* get_property_by_path.  A path is a string: a sequence of characters.    *)
(***************************************************************************)
\* path.split('.')
SplitDots(path) ==
    LET F[i \in 0..Len(path)] ==
            IF i = 0 THEN << <<>> >>
            ELSE LET parts == F[i-1]
                 IN IF path[i] = "." THEN Append(parts, <<>>)
                    ELSE [parts EXCEPT ![Len(parts)] = Append(@, path[i])]
    IN F[Len(path)]

\* The characters int() reads as decimal digits.
DecimalChars == {"0", "1", "2", "3", "4", "5", "6", "7", "8", "9"}

DigitValue(c) ==
    CASE c = "0" -> 0 [] c = "1" -> 1 [] c = "2" -> 2 [] c = "3" -> 3 [] c = "4" -> 4
      [] c = "5" -> 5 [] c = "6" -> 6 [] c = "7" -> 7 [] c = "8" -> 8 [] c = "9" -> 9

\* Characters for which str.isdigit() holds though int() rejects them
\* (superscript two, U+00B2).
OtherDigitChars == {"SUPERSCRIPT TWO"}

\* part.isdigit()
IsDigit(part) ==
    /\ Len(part) > 0
    /\ \A i \in 1..Len(part) : part[i] \in DecimalChars \cup OtherDigitChars

\* int(part): the number, or -1 for the ValueError raised on a character
\* that is no decimal digit.
IntOf(part) ==
    LET F[i \in 0..Len(part)] ==
            IF i = 0 THEN 0
            ELSE LET value == F[i-1]
                 IN IF value < 0 \/ part[i] \notin DecimalChars THEN -1
                    ELSE 10 * value + DigitValue(part[i])
    IN F[Len(part)]

\* Attributes every instance of the type has: methods of list and dict, the
\* to_dict method of an object that has one.
ClassAttrs(node) ==
    CASE node.kind \in {"list", "dict"} -> {KPop}
      [] node.kind = "object" /\ node.td # "none" -> {KToDict}
      [] OTHER -> {}

InDict(node, name) == \E i \in 1..Len(node.keys) : node.keys[i] = name

\* hasattr(current, name)
HasAttr(node, name) ==
    \/ name \in ClassAttrs(node)
    \/ node.kind = "object" /\ InDict(node, name) /\ name \notin node.hidden

\* getattr(current, name): a bound method is a value of unsupported type
GetAttr(node, name) ==
    IF node.kind = "object" /\ InDict(node, name) THEN EntryOf(node, name)
    ELSE OtherLeaf

Found(n) == [t |-> "value", node |-> n]
\* f"Index {index} out of range at path '{path_so_far}'"
IndexOutOfRange(index, path_so_far) ==
    [t |-> "error", msg |-> "Index out of range", index |-> index, path |-> path_so_far]
\* f"Property '{part}' not found at path '{path_so_far}'"
PropertyNotFound(part, path_so_far) ==
    [t |-> "error", msg |-> "Property not found", part |-> part, path |-> path_so_far]

\* The loop body with the length test made part of the first branch's
\* condition: an index past the end falls through to the property branches.
ResolveStepNoRangeError(h, current, part, path_so_far) ==
    LET node == h[current]
    IN IF IsDigit(part) /\ node.kind = "list" /\ IntOf(part) < Len(node.kids)
       THEN IF IntOf(part) < 0 THEN VRaise("ValueError")
            ELSE Found(node.kids[IntOf(part) + 1])
       ELSE IF node.kind = "dict" /\ InDict(node, part) THEN Found(EntryOf(node, part))
       ELSE IF HasAttr(node, part) THEN Found(GetAttr(node, part))
       ELSE IF node.kind = "object" /\ InDict(node, part) THEN Found(EntryOf(node, part))
       ELSE IF HasAttr(node, <<"@">> \o part) THEN Found(GetAttr(node, <<"@">> \o part))
       ELSE PropertyNotFound(part, path_so_far)

\* The loop body with the attribute branch tried before the mapping branch.
ResolveStepAttributeFirst(h, current, part, path_so_far) ==
    LET node == h[current]
    IN IF IsDigit(part) /\ node.kind = "list"
       THEN IF IntOf(part) < 0 THEN VRaise("ValueError")
            ELSE IF IntOf(part) < Len(node.kids)
            THEN Found(node.kids[IntOf(part) + 1])
            ELSE IndexOutOfRange(IntOf(part), path_so_far)
       ELSE IF HasAttr(node, part) THEN Found(GetAttr(node, part))
       ELSE IF node.kind = "dict" /\ InDict(node, part) THEN Found(EntryOf(node, part))
       ELSE IF node.kind = "object" /\ InDict(node, part) THEN Found(EntryOf(node, part))
       ELSE IF HasAttr(node, <<"@">> \o part) THEN Found(GetAttr(node, <<"@">> \o part))
       ELSE PropertyNotFound(part, path_so_far)

\* One iteration of the loop: from value current, with segment part and
\* path_so_far already extended by it.
ResolveStep(h, current, part, path_so_far) ==
    LET node == h[current]
    IN IF IsDigit(part) /\ node.kind = "list"
       THEN IF IntOf(part) < 0 THEN VRaise("ValueError")
            ELSE IF IntOf(part) < Len(node.kids)
            THEN Found(node.kids[IntOf(part) + 1])
            ELSE IndexOutOfRange(IntOf(part), path_so_far)
       ELSE IF node.kind = "dict" /\ InDict(node, part) THEN Found(EntryOf(node, part))
       ELSE IF HasAttr(node, part) THEN Found(GetAttr(node, part))
       ELSE IF node.kind = "object" /\ InDict(node, part) THEN Found(EntryOf(node, part))
       ELSE IF HasAttr(node, <<"@">> \o part) THEN Found(GetAttr(node, <<"@">> \o part))
       ELSE PropertyNotFound(part, path_so_far)

\* for i, part in enumerate(path_parts): ...; return current, None
RECURSIVE ResolveFrom(_, _, _, _, _)
ResolveFrom(h, current, path_parts, i, path_so_far) ==
    IF i > Len(path_parts) THEN Found(current)
    ELSE LET part == path_parts[i]
             so_far == path_so_far \o (IF i = 1 THEN <<>> ELSE <<".">>) \o part
             step == ResolveStep(h, current, part, so_far)
         IN IF step.t = "value"
            THEN ResolveFrom(h, step.node, path_parts, i + 1, so_far)
            ELSE step

GetPropertyByPath(h, obj, path) == ResolveFrom(h, obj, SplitDots(path), 1, <<>>)

(***************************************************************************)
(* The object graphs the serializer is run on.  A composite node holds one *)
(* link to another node followed by pad distinct strings.                  *)
(***************************************************************************)

PlainKeys == << <<"a">>, <<"b">>, <<"c">>, <<"d">>, <<"e">>, <<"f">>, <<"g">>, <<"h">> >>
SpecialKeys == << <<"b">>, KId, KNote, KPriv, <<"c">>, <<"d">>, <<"e">>, <<"f">> >>

ObjectPlain == [kind |-> "object", td |-> "none"]
ObjectToDict == [kind |-> "object", td |-> "ok"]
ObjectToDictRaises == [kind |-> "object", td |-> "raises"]
ListKind == [kind |-> "list", td |-> "none"]
DictKind == [kind |-> "dict", td |-> "none"]
KindChoices == {ObjectPlain, ObjectToDict, ObjectToDictRaises, ListKind, DictKind}

MkNode(kt, pad, link, scheme) ==
    LET kids == (IF link = 0 THEN <<>> ELSE <<link>>) \o [i \in 1..pad |-> NoneLeaf + i]
    IN Node(kt.kind, kt.td,
            IF kt.kind = "list" THEN <<>> ELSE SubSeq(scheme, 1, Len(kids)),
            kids, VNull)

Leaves ==
    [n \in NodeIds \ Composite |->
        CASE n = StrLeaf -> ScalarNode(VScalar("s"))
          [] n = OtherLeaf -> Node("other", "none", <<>>, <<>>, VNull)
          [] n = NoneLeaf -> ScalarNode(VNull)
          [] OTHER -> ScalarNode(VScalar("v" \o ToString(n - NoneLeaf)))]

MkHeap(n1, n2, n3) ==
    [n \in NodeIds |-> CASE n = 1 -> n1 [] n = 2 -> n2 [] n = 3 -> n3 [] OTHER -> Leaves[n]]

Node1Choices ==
    {MkNode(kt, pad, link, scheme) :
        kt \in KindChoices, pad \in {0, 1, 5, 6}, link \in {0, 1, 2},
        scheme \in {PlainKeys, SpecialKeys}}
Node2Choices ==
    {MkNode(kt, 1, link, SpecialKeys) : kt \in KindChoices, link \in {1, 3}}
Node3Choices ==
    {MkNode(kt, 0, StrLeaf, SpecialKeys) : kt \in {ObjectPlain, ListKind, DictKind}}

SerHeaps == {MkHeap(n1, n2, n3) : n1 \in Node1Choices, n2 \in Node2Choices, n3 \in Node3Choices}

(***************************************************************************)
(* State.                                                                  *)
(***************************************************************************)
NoCall == [op |-> "none"]

\* No entry point of the program has been run.
ServerOff == [entry |-> "none", state |-> "off", exit_code |-> 0]

\* The threads that call get_speckle_client.
Threads == {1, 2}

\* A caller that has not called get_speckle_client yet.  failed is the
\* message of the error caught by the except clause, raised the message of
\* the error that left get_speckle_client.
NotCalled ==
    [pc |-> "idle", calls |-> 0, failed |-> <<>>, outcome |-> "none", handle |-> 0,
     handles |-> {}, raised |-> <<>>]

\* _instance = None, _lock free, no client authenticated, SPECKLE_TOKEN set.
ClientIdle ==
    /\ instance = 0
    /\ lock = 0
    /\ created = 0
    /\ pcs = [t \in Threads |-> NotCalled]
    /\ speckle_token = TRUE

InitSer ==
    /\ heap \in SerHeaps
    /\ call = NoCall
    /\ server = ServerOff
    /\ ClientIdle

\* SpeckleObjectConverter.convert_to_dict(root, max_depth=d, include_children=inc)
CallConvertToDict ==
    /\ call.op = "none"
    /\ \E root \in Composite, d \in 0..MaxDepthArg, inc \in BOOLEAN :
          call' = [op |-> "convert_to_dict", root |-> root, max_depth |-> d,
                   include_children |-> inc,
                   result |-> ConvertToDict(heap, root, 0, d, inc, 1)]
    /\ UNCHANGED <<heap, clientVars, server>>

\* SpeckleObjectConverter.convert_value(root)
CallConvertValue ==
    /\ call.op = "none"
    /\ \E root \in Composite :
          call' = [op |-> "convert_value", root |-> root,
                   result |-> ConvertValue(heap, root, 1)]
    /\ UNCHANGED <<heap, clientVars, server>>

NextSer == CallConvertToDict \/ CallConvertValue

SpecSer == InitSer /\ [][NextSer]_vars

(***************************************************************************)
(* The object graphs and paths the navigator is run on.                    *)
(***************************************************************************)
\* Largest number of segments of a path.
MaxPathSegs == 3

KElements == <<"e", "l", "e", "m", "e", "n", "t", "s">>
KName == <<"n", "a", "m", "e">>

Segments ==
    { <<"a">>, <<"b">>, <<"0">>, <<"5">>, <<"SUPERSCRIPT TWO">>, <<>>, KElements, KName, KPop }

CoreSegments == { <<"a">>, <<"b">>, <<"0">>, <<"5">>, KElements, KName }

\* ".".join(parts)
JoinDots(parts) ==
    LET F[i \in 0..Len(parts)] ==
            IF i = 0 THEN <<>>
            ELSE F[i-1] \o (IF i = 1 THEN <<>> ELSE <<".">>) \o parts[i]
    IN F[Len(parts)]

\* Paths of one or two segments of any kind, and longer paths of names and
\* indices.
Paths ==
    {JoinDots(parts) :
        parts \in UNION {[1..n -> IF n <= 2 THEN Segments ELSE CoreSegments] :
                            n \in 1..MaxPathSegs}}

PathNode1(kt) ==
    Node(kt.kind, "none", IF kt.kind = "list" THEN <<>> ELSE << <<"a">>, KElements, <<"0">> >>,
         <<2, 3, 7>>, VNull)
PathNode2(kt) ==
    Node(kt.kind, "none", IF kt.kind = "list" THEN <<>> ELSE << <<"b">>, KPop, <<"5">> >>,
         <<3, 8, 9>>, VNull)
PathNode3Choices ==
    { Node("list", "none", <<>>, <<>>, VNull),
      Node("list", "none", <<>>, <<10, 11>>, VNull),
      Node("dict", "none", << KName, <<"@", "a">> >>, <<10, 11>>, VNull),
      Node("object", "none", << KName, <<"@", "a">> >>, <<10, 11>>, VNull),
      [Node("object", "ok", << KName, <<"b">> >>, <<10, 11>>, VNull) EXCEPT !.hidden = {<<"b">>}] }

PathHeaps ==
    {MkHeap(PathNode1(k1), PathNode2(k2), n3) :
        k1 \in {ObjectPlain, ListKind, DictKind}, k2 \in {ObjectPlain, ListKind, DictKind},
        n3 \in PathNode3Choices}

InitPath ==
    /\ heap \in PathHeaps
    /\ call = NoCall
    /\ server = ServerOff
    /\ ClientIdle

\* get_property_by_path(root, path)
CallGetPropertyByPath ==
    /\ call.op = "none"
    /\ \E root \in {1, 2}, path \in Paths :
          call' = [op |-> "get_property_by_path", root |-> root, path |-> path,
                   result |-> GetPropertyByPath(heap, root, path)]
    /\ UNCHANGED <<heap, clientVars, server>>

NextPath == CallGetPropertyByPath

SpecPath == InitPath /\ [][NextPath]_vars

(***************************************************************************)
(* SpeckleClientSingleton and get_speckle_client, called from several      *)
(* threads.  A client is named by the order in which it was authenticated: *)
(* 1, 2, ...; 0 stands for None.  An error message is the sequence of its  *)
(* words.                                                                  *)
(***************************************************************************)
\* Largest number of get_speckle_client calls made by one thread.
MaxCalls == 2

\* The message of the ValueError raised by _create_instance.
TokenNotConfigured == <<"Speckle", "token", "not", "configured.">>

\* Messages of the errors authenticate_with_token can raise.
AuthenticateErrors ==
    { <<"Authentication", "failed">>, <<"Invalid", "Token">>, <<"Connection", "refused">> }

\* word.lower()
Lower(word) ==
    CASE word = "Authentication" -> "authentication"
      [] word = "Token" -> "token"
      [] word = "Speckle" -> "speckle"
      [] word = "Invalid" -> "invalid"
      [] word = "Connection" -> "connection"
      [] OTHER -> word

\* "authentication" in str(e).lower() or "token" in str(e).lower()
AuthShaped(msg) ==
    \E i \in 1..Len(msg) : Lower(msg[i]) \in {"authentication", "token"}

\* A thread enters get_speckle_client.
CallGetSpeckleClient(t) ==
    /\ pcs[t].pc = "idle"
    /\ pcs[t].calls < MaxCalls
    /\ pcs' = [pcs EXCEPT ![t] = [@ EXCEPT !.pc = "get_lock", !.calls = @ + 1,
                                            !.failed = <<>>, !.outcome = "none",
                                            !.handle = 0, !.raised = <<>>]]
    /\ UNCHANGED <<server, heap, call, instance, lock, created, speckle_token>>

\* get_instance: with cls._lock, then the test cls._instance is None.
GetInstanceEnter(t) ==
    /\ pcs[t].pc = "get_lock"
    /\ lock = 0
    /\ lock' = t
    /\ pcs' = [pcs EXCEPT ![t].pc = IF instance = 0 THEN "get_create" ELSE "get_return"]
    /\ UNCHANGED <<server, heap, call, instance, created, speckle_token>>

\* refresh_instance: with cls._lock.
RefreshInstanceEnter(t) ==
    /\ pcs[t].pc = "refresh_lock"
    /\ lock = 0
    /\ lock' = t
    /\ pcs' = [pcs EXCEPT ![t].pc = "refresh_create"]
    /\ UNCHANGED <<server, heap, call, instance, created, speckle_token>>

\* _create_instance runs to its end: the token is set, authenticate_with_token
\* returns and the new client is stored in _instance.
CreateInstanceOk(t) ==
    /\ pcs[t].pc \in {"get_create", "refresh_create"}
    /\ lock = t
    /\ speckle_token
    /\ created' = created + 1
    /\ instance' = created + 1
    /\ pcs' = [pcs EXCEPT ![t].pc = IF @ = "get_create" THEN "get_return" ELSE "refresh_return"]
    /\ UNCHANGED <<server, heap, call, lock, speckle_token>>

\* _create_instance storing the client in _instance before the token test and
\* authenticate_with_token: a failed attempt leaves the new client behind.
CreateInstanceStoresFirst(t) ==
    /\ pcs[t].pc \in {"get_create", "refresh_create"}
    /\ lock = t
    /\ \E msg \in (IF speckle_token THEN AuthenticateErrors ELSE {TokenNotConfigured}) :
          pcs' = [pcs EXCEPT ![t] =
                     IF @.pc = "get_create"
                     THEN [@ EXCEPT !.pc = "except", !.failed = msg]
                     ELSE [@ EXCEPT !.pc = "idle", !.outcome = "error", !.raised = msg]]
    /\ lock' = 0
    /\ instance' = created + 1
    /\ UNCHANGED <<server, heap, call, created, speckle_token>>

\* _create_instance raises: ValueError when the token is empty, otherwise
\* whatever authenticate_with_token raises.  The with statement releases the
\* lock; inside get_instance the error reaches the except clause of
\* get_speckle_client, inside refresh_instance it leaves get_speckle_client.
CreateInstanceRaises(t) ==
    /\ pcs[t].pc \in {"get_create", "refresh_create"}
    /\ lock = t
    /\ \E msg \in (IF speckle_token THEN AuthenticateErrors ELSE {TokenNotConfigured}) :
          pcs' = [pcs EXCEPT ![t] =
                     IF @.pc = "get_create"
                     THEN [@ EXCEPT !.pc = "except", !.failed = msg]
                     ELSE [@ EXCEPT !.pc = "idle", !.outcome = "error", !.raised = msg]]
    /\ lock' = 0
    /\ UNCHANGED <<server, heap, call, instance, created, speckle_token>>

\* return cls._instance, of get_instance and of refresh_instance.
ReturnInstance(t) ==
    /\ pcs[t].pc \in {"get_return", "refresh_return"}
    /\ lock = t
    /\ lock' = 0
    /\ pcs' = [pcs EXCEPT ![t] = [@ EXCEPT !.pc = "idle", !.outcome = "ok",
                                            !.handle = instance,
                                            !.handles = @ \cup {instance}]]
    /\ UNCHANGED <<server, heap, call, instance, created, speckle_token>>

\* except Exception as e, with an authentication-shaped message: refresh.
ExceptRefresh(t) ==
    /\ pcs[t].pc = "except"
    /\ AuthShaped(pcs[t].failed)
    /\ pcs' = [pcs EXCEPT ![t].pc = "refresh_lock"]
    /\ UNCHANGED <<server, heap, call, instance, lock, created, speckle_token>>

\* except Exception as e, with any other message: raise.
ExceptReraise(t) ==
    /\ pcs[t].pc = "except"
    /\ ~AuthShaped(pcs[t].failed)
    /\ pcs' = [pcs EXCEPT ![t] = [@ EXCEPT !.pc = "idle", !.outcome = "error",
                                            !.raised = pcs[t].failed]]
    /\ UNCHANGED <<server, heap, call, instance, lock, created, speckle_token>>

\* The process starts with SPECKLE_TOKEN set or not.
InitClient ==
    /\ heap = <<>>
    /\ call = NoCall
    /\ server = ServerOff
    /\ instance = 0
    /\ lock = 0
    /\ created = 0
    /\ pcs = [t \in Threads |-> NotCalled]
    /\ speckle_token \in BOOLEAN

NextClient ==
    \E t \in Threads :
       \/ CallGetSpeckleClient(t)
       \/ GetInstanceEnter(t)
       \/ RefreshInstanceEnter(t)
       \/ CreateInstanceOk(t)
       \/ CreateInstanceRaises(t)
       \/ ReturnInstance(t)
       \/ ExceptRefresh(t)
       \/ ExceptReraise(t)

SpecClient == InitClient /\ [][NextClient]_vars

(***************************************************************************)
(* The program as a whole: an entry point starts the listener, the         *)
(* listener runs the tools one at a time (the tools are coroutines without *)
(* a suspension point, run on one event loop, thread 1).  A text is a      *)
(* record: plain text made of parts, or the JSON text of a value.          *)
(***************************************************************************)
ToolNames ==
    {"list_projects", "get_project_details", "search_projects", "get_model_versions",
     "get_version_objects", "query_object_properties"}

\* The number of parameters without a default value.
MinArgs(tool) ==
    CASE tool = "list_projects" -> 0
      [] tool = "get_project_details" -> 1
      [] tool = "search_projects" -> 1
      [] tool = "get_model_versions" -> 2
      [] tool = "get_version_objects" -> 2
      [] tool = "query_object_properties" -> 3

\* The number of parameters.
MaxArgs(tool) ==
    CASE tool = "list_projects" -> 1
      [] tool = "get_project_details" -> 2
      [] tool = "search_projects" -> 1
      [] tool = "get_model_versions" -> 3
      [] tool = "get_version_objects" -> 3
      [] tool = "query_object_properties" -> 3

\* The tools that fetch a version record and then its object graph.
GraphTools == {"get_version_objects", "query_object_properties"}

\* Largest number of positional arguments a tool is called with.
MaxArgsTried == 4

\* The event loop's thread.
LoopThread == 1

PlainText(parts) == [kind |-> "plain", parts |-> parts]

\* json.dumps(result, indent=2)
JsonText(data) == [kind |-> "json", data |-> data]

\* f"Error: {str(e)}\n\nFor detailed logs, check the server output."
ErrorText(msg) == PlainText(<<"Error: ", msg, "For detailed logs, check the server output.">>)

\* f"Version {version_id} not found in project {project_id}."
VersionNotFound(version_id, project_id) ==
    PlainText(<<"Version ", version_id, " not found in project ", project_id, ".">>)

\* The TypeError of a call with a wrong number of arguments.
ArgumentCountError(tool) == <<tool, "takes", "positional", "arguments">>

\* The errors the Speckle client raises from a request.
FetchErrors == { <<"GraphQL", "request", "failed">> }

RecursionErrorMsg == <<"maximum", "recursion", "depth", "exceeded">>
NotSerializableMsg == <<"Object", "is", "not", "JSON", "serializable">>
InvalidLiteralMsg == <<"invalid", "literal", "for", "int()">>

\* main() of speckle_server.py with the token missing: sys.exit(1), which
\* except Exception does not catch.
MainExit ==
    /\ server.entry = "stdio"
    /\ server.state = "starting"
    /\ ~speckle_token
    /\ server' = [server EXCEPT !.state = "exited", !.exit_code = 1]
    /\ UNCHANGED <<heap, call, clientVars>>

\* main() with the token set: mcp.run(transport='stdio').
MainRun ==
    /\ server.entry = "stdio"
    /\ server.state = "starting"
    /\ speckle_token
    /\ server' = [server EXCEPT !.state = "listening"]
    /\ UNCHANGED <<heap, call, clientVars>>

\* mcp.run raises: the except clause of main() exits with code 1.
MainFatal ==
    /\ server.entry = "stdio"
    /\ server.state = "listening"
    /\ server' = [server EXCEPT !.state = "exited", !.exit_code = 1]
    /\ UNCHANGED <<heap, call, clientVars>>

\* __main__ of http_wrapper.py: uvicorn.run(app, host="0.0.0.0", port=8000).
HttpRun ==
    /\ server.entry = "http"
    /\ server.state = "starting"
    /\ server' = [server EXCEPT !.state = "listening"]
    /\ UNCHANGED <<heap, call, clientVars>>

\* max_depth=2 in get_version_objects.
ToolMaxDepth == 2

\* The object graphs operations.receive returns: a tree, a graph with a
\* cycle through its root, and one with an object whose to_dict returns a
\* live object.
ToolHeaps ==
    { MkHeap(PathNode1(ObjectPlain), PathNode2(ObjectPlain),
             Node("list", "none", <<>>, <<10, 11>>, VNull)),
      MkHeap(MkNode(ObjectPlain, 1, 1, PlainKeys), MkNode(ObjectPlain, 0, StrLeaf, PlainKeys),
             MkNode(ListKind, 0, StrLeaf, PlainKeys)),
      MkHeap(MkNode(ObjectPlain, 1, 2, PlainKeys), MkNode(ObjectToDict, 1, 3, PlainKeys),
             MkNode(ObjectPlain, 0, StrLeaf, PlainKeys)) }

\* The property_path arguments tried.
ToolPaths ==
    { <<"a">>, <<"z">>, JoinDots(<<KElements, <<"0">>>>),
      JoinDots(<<KElements, <<"SUPERSCRIPT TWO">>>>) }

\* str(e) of the exceptions the converter and the navigator raise.
ExcMessage(exc) ==
    CASE exc = "RecursionError" -> RecursionErrorMsg
      [] exc = "ValueError" -> InvalidLiteralMsg
      [] OTHER -> <<exc>>

\* No HTTP response has been made.
NoResponse == [media |-> "none"]

\* The wrapper of handle_exceptions is called with nargs positional arguments.
NewCall(tool, via, request, nargs, inc, path) ==
    [op |-> "tool", tool |-> tool, via |-> via, request |-> request, nargs |-> nargs,
     include_children |-> inc, property_path |-> path,
     pc |-> "bind", steps |-> <<>>, failure |-> <<>>, result |-> PlainText(<<>>),
     version |-> "unknown", response |-> NoResponse]

\* No tool is running.
LoopFree ==
    IF call.op = "none" THEN TRUE
    ELSE call.pc = "done" /\ (call.via = "http" => call.response # NoResponse)

\* A tool is called through the tool protocol or directly.
InvokeTool ==
    /\ server.state = "listening"
    /\ LoopFree
    /\ \E tool \in ToolNames, nargs \in 0..MaxArgsTried :
       \E inc \in (IF tool = "get_version_objects" /\ nargs >= 3 THEN BOOLEAN ELSE {FALSE}),
          path \in (IF tool = "query_object_properties" THEN ToolPaths ELSE {<<>>}) :
          call' = NewCall(tool, "direct", <<>>, nargs, inc, path)
    /\ heap' = <<>>
    /\ UNCHANGED <<clientVars, server>>

\* wrapper: return await func(*args, **kwargs), the binding of the arguments.
ToolBind ==
    /\ call.op = "tool" /\ call.pc = "bind"
    /\ call' = IF call.nargs \in MinArgs(call.tool)..MaxArgs(call.tool)
               THEN [call EXCEPT !.pc = "acquire"]
               ELSE [call EXCEPT !.pc = "except", !.failure = ArgumentCountError(call.tool)]
    /\ UNCHANGED <<heap, clientVars, server>>

\* client = get_speckle_client(): the call is made.
ToolAcquire ==
    /\ call.op = "tool" /\ call.pc = "acquire"
    /\ pcs[LoopThread].pc = "idle"
    /\ pcs[LoopThread].calls < MaxCalls
    /\ pcs' = [pcs EXCEPT ![LoopThread] =
                  [@ EXCEPT !.pc = "get_lock", !.calls = @ + 1, !.failed = <<>>,
                            !.outcome = "none", !.handle = 0, !.raised = <<>>]]
    /\ call' = [call EXCEPT !.pc = "session"]
    /\ UNCHANGED <<heap, instance, lock, created, speckle_token, server>>

\* client = get_speckle_client(): the call returns or raises.
ToolSession ==
    /\ call.op = "tool" /\ call.pc = "session"
    /\ pcs[LoopThread].pc = "idle"
    /\ call' = IF pcs[LoopThread].outcome = "ok"
               THEN [call EXCEPT !.pc = "fetch", !.steps = Append(@, "session")]
               ELSE [call EXCEPT !.pc = "except", !.failure = pcs[LoopThread].raised]
    /\ UNCHANGED <<heap, clientVars, server>>

\* The one request of list_projects, get_project_details, search_projects
\* and get_model_versions, and the text made from its answer.
ToolFetchList ==
    /\ call.op = "tool" /\ call.pc = "fetch"
    /\ call.tool \notin GraphTools
    /\ \/ \E msg \in FetchErrors :
            call' = [call EXCEPT !.pc = "except", !.failure = msg,
                                 !.steps = Append(@, "fetch")]
       \/ \E parts \in { <<"No ", call.tool, " found">>, <<"Found ", call.tool>> } :
            call' = [call EXCEPT !.pc = "done", !.result = PlainText(parts),
                                 !.steps = Append(@, "fetch")]
    /\ UNCHANGED <<heap, clientVars, server>>

\* The version request with the test "if not version" left out: the tool
\* goes on to the transport whether the record is there or not.
ToolFetchVersionNoTest ==
    /\ call.op = "tool" /\ call.pc = "fetch"
    /\ call.tool \in GraphTools
    /\ \E found \in {"absent", "present"} :
          call' = [call EXCEPT !.pc = "transport", !.steps = Append(@, "version"),
                               !.version = found]
    /\ UNCHANGED <<heap, clientVars, server>>

\* version = client.version.get(version_id, project_id) and the test of it.
ToolFetchVersion ==
    /\ call.op = "tool" /\ call.pc = "fetch"
    /\ call.tool \in GraphTools
    /\ \/ \E msg \in FetchErrors :
            call' = [call EXCEPT !.pc = "except", !.failure = msg,
                                 !.steps = Append(@, "version")]
       \/ call' = [call EXCEPT !.pc = "done", !.result = VersionNotFound("v1", "p1"),
                               !.steps = Append(@, "version"), !.version = "absent"]
       \/ call' = [call EXCEPT !.pc = "transport", !.steps = Append(@, "version"),
                               !.version = "present"]
    /\ UNCHANGED <<heap, clientVars, server>>

\* transport = ServerTransport(project_id, client)
ToolTransport ==
    /\ call.op = "tool" /\ call.pc = "transport"
    /\ \/ \E msg \in FetchErrors :
            call' = [call EXCEPT !.pc = "except", !.failure = msg,
                                 !.steps = Append(@, "transport")]
       \/ call' = [call EXCEPT !.pc = "receive", !.steps = Append(@, "transport")]
    /\ UNCHANGED <<heap, clientVars, server>>

\* speckle_object = operations.receive(object_id, transport)
ToolReceive ==
    /\ call.op = "tool" /\ call.pc = "receive"
    /\ \/ /\ \E msg \in FetchErrors :
               call' = [call EXCEPT !.pc = "except", !.failure = msg,
                                    !.steps = Append(@, "receive")]
          /\ heap' = heap
       \/ /\ call' = [call EXCEPT !.pc = "convert", !.steps = Append(@, "receive")]
          /\ heap' \in ToolHeaps
    /\ UNCHANGED <<clientVars, server>>

\* get_version_objects: convert_to_dict(speckle_object, max_depth=2,
\* include_children=include_children), then json.dumps of the result record.
ToolConvertObjects ==
    /\ call.op = "tool" /\ call.pc = "convert"
    /\ call.tool = "get_version_objects"
    /\ LET obj_dict == ConvertToDict(heap, 1, 0, ToolMaxDepth, call.include_children, 1)
           done == [call EXCEPT !.steps = Append(@, "convert")]
       IN call' = IF IsRaise(obj_dict)
                  THEN [done EXCEPT !.pc = "except", !.failure = ExcMessage(obj_dict.exc)]
                  ELSE IF ~JsonSafe(obj_dict)
                  THEN [done EXCEPT !.pc = "except", !.failure = NotSerializableMsg]
                  ELSE [done EXCEPT !.pc = "done",
                                    !.result = JsonText(VDict(<< <<"data">> >>, <<obj_dict>>))]
    /\ UNCHANGED <<heap, clientVars, server>>

\* query_object_properties: get_property_by_path, the test of its error,
\* convert_value and json.dumps of the result record.
ToolQueryProperty ==
    /\ call.op = "tool" /\ call.pc = "convert"
    /\ call.tool = "query_object_properties"
    /\ LET found == GetPropertyByPath(heap, 1, call.property_path)
           value == ConvertValue(heap, found.node, 1)
           done == [call EXCEPT !.steps = Append(@, "convert")]
       IN call' = IF found.t = "raise"
                  THEN [done EXCEPT !.pc = "except", !.failure = ExcMessage(found.exc)]
                  ELSE IF found.t = "error"
                  THEN [done EXCEPT !.pc = "done", !.result = PlainText(<<"Error: ", found>>)]
                  ELSE IF IsRaise(value)
                  THEN [done EXCEPT !.pc = "except", !.failure = ExcMessage(value.exc)]
                  ELSE IF ~JsonSafe(value)
                  THEN [done EXCEPT !.pc = "except", !.failure = NotSerializableMsg]
                  ELSE [done EXCEPT !.pc = "done",
                                    !.result = JsonText(VDict(<< <<"value">> >>, <<value>>))]
    /\ UNCHANGED <<heap, clientVars, server>>

\* The wrapper without its except clause: the exception leaves the tool.
ToolExceptPropagates ==
    /\ call.op = "tool" /\ call.pc = "except"
    /\ call' = [call EXCEPT !.pc = "done", !.result = [kind |-> "raised", exc |-> call.failure]]
    /\ UNCHANGED <<heap, clientVars, server>>

\* wrapper: except Exception as e, return f"Error: {str(e)}...".
ToolExcept ==
    /\ call.op = "tool" /\ call.pc = "except"
    /\ call' = [call EXCEPT !.pc = "done", !.result = ErrorText(call.failure)]
    /\ UNCHANGED <<heap, clientVars, server>>

\* The routes of http_wrapper.py in the order of their registration: the
\* pattern ("{}" is a path parameter), the tool the handler calls and the
\* number of positional arguments it passes.
Routes ==
    << [pattern |-> <<"projects">>, tool |-> "list_projects", nargs |-> 2],
       [pattern |-> <<"projects", "{}">>, tool |-> "get_project_details", nargs |-> 2],
       [pattern |-> <<"projects", "search">>, tool |-> "search_projects", nargs |-> 2],
       [pattern |-> <<"projects", "{}", "models", "{}", "versions">>,
        tool |-> "get_model_versions", nargs |-> 4],
       [pattern |-> <<"projects", "{}", "versions", "{}", "objects">>,
        tool |-> "get_version_objects", nargs |-> 4],
       [pattern |-> <<"projects", "{}", "versions", "{}", "query">>,
        tool |-> "query_object_properties", nargs |-> 3] >>

\* The request paths of the six endpoints.
RequestPaths ==
    { <<"projects">>, <<"projects", "p1">>, <<"projects", "search">>,
      <<"projects", "p1", "models", "m1", "versions">>,
      <<"projects", "p1", "versions", "v1", "objects">>,
      <<"projects", "p1", "versions", "v1", "query">> }

\* A route matches a path segment by segment; a parameter matches any segment.
Matches(pattern, request) ==
    /\ Len(pattern) = Len(request)
    /\ \A i \in 1..Len(pattern) : pattern[i] = "{}" \/ pattern[i] = request[i]

\* The router takes the first route that matches.
FirstMatch(request) ==
    CHOOSE i \in 1..Len(Routes) :
        /\ Matches(Routes[i].pattern, request)
        /\ \A j \in 1..(i - 1) : ~Matches(Routes[j].pattern, request)

\* A GET request reaches its handler, which calls the tool.
HttpRequest ==
    /\ server.entry = "http"
    /\ server.state = "listening"
    /\ LoopFree
    /\ \E request \in RequestPaths :
          LET route == Routes[FirstMatch(request)]
          IN \E inc \in (IF route.tool = "get_version_objects" THEN BOOLEAN ELSE {FALSE}),
                path \in (IF route.tool = "query_object_properties" THEN ToolPaths ELSE {<<>>}) :
                call' = NewCall(route.tool, "http", request, route.nargs, inc, path)
    /\ heap' = <<>>
    /\ UNCHANGED <<clientVars, server>>

\* maybe_json(result): JSONResponse of the parsed text, else PlainTextResponse.
MaybeJson(result) ==
    IF result.kind = "json" THEN [media |-> "json", body |-> result.data]
    ELSE [media |-> "plain", body |-> result]

\* The handler returns maybe_json(result).
HttpRespond ==
    /\ call.op = "tool" /\ call.pc = "done"
    /\ call.via = "http"
    /\ call.response = NoResponse
    /\ call' = [call EXCEPT !.response = MaybeJson(call.result)]
    /\ UNCHANGED <<heap, clientVars, server>>

\* An entry point is run, with SPECKLE_TOKEN set or not.
InitServer ==
    /\ heap = <<>>
    /\ call = NoCall
    /\ server \in {[entry |-> e, state |-> "starting", exit_code |-> 0] : e \in {"stdio", "http"}}
    /\ instance = 0
    /\ lock = 0
    /\ created = 0
    /\ pcs = [t \in Threads |-> NotCalled]
    /\ speckle_token \in BOOLEAN

NextServer ==
    \/ MainExit
    \/ MainRun
    \/ MainFatal
    \/ HttpRun
    \/ InvokeTool
    \/ HttpRequest
    \/ ToolBind
    \/ ToolAcquire
    \/ ToolSession
    \/ ToolFetchList
    \/ ToolFetchVersion
    \/ ToolTransport
    \/ ToolReceive
    \/ ToolConvertObjects
    \/ ToolQueryProperty
    \/ ToolExcept
    \/ HttpRespond
    \/ GetInstanceEnter(LoopThread)
    \/ RefreshInstanceEnter(LoopThread)
    \/ CreateInstanceOk(LoopThread)
    \/ CreateInstanceRaises(LoopThread)
    \/ ReturnInstance(LoopThread)
    \/ ExceptRefresh(LoopThread)
    \/ ExceptReraise(LoopThread)

SpecServer == InitServer /\ [][NextServer]_vars

(***************************************************************************)
(* Properties of the navigator, stated for SpecPath.                       *)
(***************************************************************************)
\* The dot-join of the first k segments.
PathPrefix(parts, k) == JoinDots(SubSeq(parts, 1, k))

\* The outcome of resolving the first k segments of the call's path.
AfterSegments(k) ==
    IF k = 0 THEN Found(call.root)
    ELSE GetPropertyByPath(heap, call.root, PathPrefix(SplitDots(call.path), k))

IsDecimal(part) ==
    Len(part) > 0 /\ \A i \in 1..Len(part) : part[i] \in DecimalChars

\* C3: whenever the current value is a sequence and the segment is all
\* decimal digits, the outcome is the descent into element [index] when
\* index < length and otherwise the error "Index <index> out of range at
\* path '<path_so_far>'", which is then the result of the call; it is never
\* "Property ... not found".
C3_IndexOnSequence ==
    call.op = "get_property_by_path" =>
        LET parts == SplitDots(call.path)
        IN \A k \in 1..Len(parts) :
              LET before == AfterSegments(k - 1)
                  at == AfterSegments(k)
                  index == IntOf(parts[k])
              IN (/\ before.t = "value"
                  /\ heap[before.node].kind = "list"
                  /\ IsDecimal(parts[k]))
                    => IF index < Len(heap[before.node].kids)
                       THEN at = Found(heap[before.node].kids[index + 1])
                       ELSE /\ at = IndexOutOfRange(index, PathPrefix(parts, k))
                            /\ call.result = at

\* "elements.0.name" against a root whose elements is an empty sequence.
C3_Witness ==
    /\ call.op = "get_property_by_path"
    /\ call.path = JoinDots(<<KElements, <<"0">>, KName>>)
    /\ heap[call.root].kind \in {"object", "dict"}
    /\ InDict(heap[call.root], KElements)
    /\ heap[EntryOf(heap[call.root], KElements)].kind = "list"
    /\ heap[EntryOf(heap[call.root], KElements)].kids = <<>>
    /\ call.result = IndexOutOfRange(0, JoinDots(<<KElements, <<"0">>>>))

\* C4: get_property_by_path returns, without raising, a value or an error
\* whose quoted sub-path is the dot-join of the first k segments of the path,
\* for every root and every path.
C4_NavigatorTotal ==
    call.op = "get_property_by_path" =>
        /\ call.result.t \in {"value", "error"}
        /\ call.result.t = "error" =>
              \E k \in 1..Len(SplitDots(call.path)) :
                 call.result.path = PathPrefix(SplitDots(call.path), k)

\* The branches of the loop body that apply to value node and segment part.
Applicable(node, part) ==
    {b \in 1..5 :
        CASE b = 1 -> node.kind = "list" /\ IsDigit(part)
          [] b = 2 -> node.kind = "dict" /\ InDict(node, part)
          [] b = 3 -> HasAttr(node, part)
          [] b = 4 -> node.kind = "object" /\ InDict(node, part)
          [] b = 5 -> HasAttr(node, <<"@">> \o part)}

\* The outcomes branch b can have for value node and segment part.
BranchOutcomes(b, node, part, path_so_far) ==
    CASE b = 1 -> {Found(node.kids[i]) : i \in 1..Len(node.kids)}
                     \cup {IndexOutOfRange(IntOf(part), path_so_far), VRaise("ValueError")}
      [] b = 2 -> {Found(EntryOf(node, part))}
      [] b = 3 -> {Found(GetAttr(node, part))}
      [] b = 4 -> {Found(EntryOf(node, part))}
      [] b = 5 -> {Found(GetAttr(node, <<"@">> \o part))}

\* C16: for each segment the outcome is that of the first applicable branch
\* in the order index on a sequence, mapping key, attribute, attribute store,
\* '@' attribute, and "Property ... not found" only when none applies: a
\* mapping entry shadows a same-named attribute of the mapping, and an
\* all-digit segment on a mapping or object is a property name.
C16_BranchOrder ==
    call.op = "get_property_by_path" =>
        LET parts == SplitDots(call.path)
        IN \A k \in 1..Len(parts) :
              LET before == AfterSegments(k - 1)
                  at == AfterSegments(k)
              IN before.t = "value" =>
                    LET node == heap[before.node]
                        apply == Applicable(node, parts[k])
                    IN /\ apply = {} <=> at = PropertyNotFound(parts[k], PathPrefix(parts, k))
                       /\ apply # {} =>
                             at \in BranchOutcomes(CHOOSE b \in apply : \A c \in apply : b <= c,
                                                   node, parts[k], PathPrefix(parts, k))
                       /\ (node.kind = "dict" /\ InDict(node, parts[k]))
                             => at = Found(EntryOf(node, parts[k]))
                       /\ (node.kind # "list" /\ IsDigit(parts[k]))
                             => (at.t = "error" => at.msg = "Property not found")

\* "a.pop" where a is a mapping with an entry pop, which is also the name of
\* a method of every mapping: the entry is the outcome.
C16_Witness ==
    /\ call.op = "get_property_by_path"
    /\ call.path = JoinDots(<< <<"a">>, KPop >>)
    /\ heap[call.root].kind = "object"
    /\ InDict(heap[call.root], <<"a">>)
    /\ heap[EntryOf(heap[call.root], <<"a">>)].kind = "dict"
    /\ KPop \in ClassAttrs(heap[EntryOf(heap[call.root], <<"a">>)])
    /\ call.result = Found(EntryOf(heap[EntryOf(heap[call.root], <<"a">>)], KPop))

(***************************************************************************)
(* Properties of the serializer, stated for SpecSer.                       *)
(***************************************************************************)
IsReferenceStub(v) ==
    v.t = "dict" /\ v.keys = <<KId, KType>> /\ v.items[2] = VScalar("reference")

\* {"_note": "...N more items"}
IsSentinel(v) == v.t = "dict" /\ v.keys = <<KNote>> /\ v.items[1].t = "scalar"

\* Every node of output v, which sits k edges below the root, is within
\* nesting depth d unless it is a Reference Stub (truncation sentinels are
\* not counted as nodes).
RECURSIVE NoDeepNode(_, _, _)
NoDeepNode(v, k, d) ==
    IF IsReferenceStub(v) \/ IsSentinel(v) THEN TRUE
    ELSE /\ k <= d
         /\ v.t \in {"list", "dict"} =>
               \A i \in 1..Len(v.items) :
                  \/ (v.t = "dict" /\ v.keys[i] = KNote)
                  \/ NoDeepNode(v.items[i], k + 1, d)

Min(a, b) == IF a < b THEN a ELSE b

\* C1: with include_children=False the result of convert_to_dict(root, 0, d)
\* has no node at nesting depth greater than d other than a Reference Stub,
\* every edge (attribute, element, mapping value) counting 1.
C1_DepthBound ==
    (call.op = "convert_to_dict" /\ ~call.include_children /\ ~IsRaise(call.result))
        => NoDeepNode(call.result, 0, call.max_depth)

\* The serialization of element or entry i of the root collection.
RootChild(i) ==
    ConvertToDict(heap, heap[call.root].kids[i], 1, call.max_depth, call.include_children, 3)

\* C2: a sequence or mapping of length L <= 5 is serialized with exactly its L
\* entries in order and no sentinel; one of length L > 5 with the
\* serializations of exactly its first 5 entries plus exactly one sentinel
\* "...(L-5) more items" ({_note: ...} appended to a sequence, key _note in a
\* mapping).
C2_Truncation ==
    (/\ call.op = "convert_to_dict"
     /\ heap[call.root].kind \in {"list", "dict"}
     /\ ~IsRaise(call.result))
        => LET node == heap[call.root]
               L == Len(node.kids)
               out == call.result
               note == VScalar(NoteText(L - TruncationLimit))
           IN /\ \A i \in 1..Min(L, TruncationLimit) :
                    /\ i <= Len(out.items)
                    /\ out.items[i] = RootChild(i)
                    /\ node.kind = "dict" => out.keys[i] = node.keys[i]
              /\ L <= TruncationLimit => Len(out.items) = L
              /\ L > TruncationLimit =>
                    /\ Len(out.items) = TruncationLimit + 1
                    /\ node.kind = "list" =>
                          out.items[TruncationLimit + 1] = VDict(<<KNote>>, <<note>>)
                    /\ node.kind = "dict" =>
                          /\ out.keys[TruncationLimit + 1] = KNote
                          /\ out.items[TruncationLimit + 1] = note

\* C5: convert_to_dict never raises and returns a JSON-safe value, for every
\* object graph (cyclic ones included) and both values of include_children.
C5_SerializeTotal ==
    call.op = "convert_to_dict" => (~IsRaise(call.result) /\ JsonSafe(call.result))

\* C6: convert_value never raises and returns a JSON-safe value, for every
\* value (cyclic ones and ones with a to_dict shortcut included).
C6_ConvertValueTotal ==
    call.op = "convert_value" => (~IsRaise(call.result) /\ JsonSafe(call.result))

\* The same graph with the to_dict method removed from every object whose
\* to_dict raises.
WithoutRaisingToDict(h) ==
    [n \in DOMAIN h |-> IF h[n].td = "raises" THEN [h[n] EXCEPT !.td = "none"] ELSE h[n]]

\* C7: when an object's to_dict raises, convert_to_dict goes on with the
\* depth check and the manual attribute walk at the same depth: the outcome
\* equals the outcome for the same graph whose objects have no to_dict.
C7_ToDictFallback ==
    call.op = "convert_to_dict"
        => call.result = ConvertToDict(WithoutRaisingToDict(heap), call.root, 0,
                                       call.max_depth, call.include_children, 1)

\* A to_dict that raised at the root (walked manually) and one that raised
\* below the depth bound (stubbed).
C7_Witness ==
    /\ call.op = "convert_to_dict"
    /\ ~call.include_children
    /\ call.max_depth = 0
    /\ heap[call.root].td = "raises"
    /\ Len(heap[call.root].kids) > 1
    /\ heap[heap[call.root].kids[1]].td = "raises"
    /\ call.result.t = "dict"
    /\ IsReferenceStub(call.result.items[1])

\* The id of a node: its id attribute or id entry, None when it has none.
IdOf(h, n) ==
    IF h[n].kind \in {"object", "dict"} THEN RawOut(h, EntryOf(h[n], KId), {}) ELSE VNull

\* C8: every Reference Stub is exactly {id, _type: "reference"} with id the
\* stubbed node's id (None when it has none), whatever the node is.  Stated
\* for the elements of a root collection, all stubbed when max_depth = 0.
C8_StubCarriesId ==
    (/\ call.op = "convert_to_dict"
     /\ ~call.include_children
     /\ call.max_depth = 0
     /\ heap[call.root].kind \in {"list", "dict"}
     /\ ~IsRaise(call.result))
        => \A i \in 1..Min(Len(heap[call.root].kids), TruncationLimit) :
              \/ (heap[call.root].kind = "dict" /\ heap[call.root].keys[i] = KNote)
              \/ call.result.items[i] = ReferenceStub(IdOf(heap, heap[call.root].kids[i]))

\* C14: with include_children=False convert_to_dict ends without raising on
\* every graph, cyclic ones included: the counter grows by at least 1 within
\* every two edges and nothing is expanded at a counter above max_depth, so
\* every expanded node lies within 2*max_depth + 1 edges of the root and
\* every path is cut by a Reference Stub within 2*max_depth + 2 edges.
C14_BoundedWalk ==
    (call.op = "convert_to_dict" /\ ~call.include_children) =>
        /\ ~IsRaise(call.result)
        /\ NoDeepNode(call.result, 0, 2 * call.max_depth + 1)

\* A cycle from the root back to the root, cut by a Reference Stub two edges
\* down when max_depth = 0: an object holding a sequence that holds the object.
C14_Witness ==
    /\ call.op = "convert_to_dict"
    /\ ~call.include_children
    /\ call.max_depth = 0
    /\ heap[call.root].kind = "object" /\ heap[call.root].td = "none"
    /\ Len(heap[call.root].kids) > 0
    /\ heap[call.root].kids[1] = 2
    /\ heap[2].kind = "list"
    /\ heap[2].kids[1] = call.root
    /\ call.result.t = "dict"
    /\ call.result.items[1].t = "list"
    /\ IsReferenceStub(call.result.items[1].items[1])

(***************************************************************************)
(* Properties of the session handle, stated for SpecClient.                *)
(***************************************************************************)
\* The threads inside a with cls._lock block.
InsideLock ==
    {t \in Threads : pcs[t].pc \in {"get_create", "get_return", "refresh_create", "refresh_return"}}

\* C9: under any interleaving of get_speckle_client calls, creation is
\* mutually exclusive, at most one client is created and authenticated for
\* the process, and every caller that returned successfully holds the handle
\* stored in _instance.
C9_SingleSession ==
    /\ Cardinality(InsideLock) <= 1
    /\ created <= 1
    /\ \A t \in Threads : pcs[t].outcome = "ok" => pcs[t].handle = instance

\* C10: the handle is created lazily on first use, every later call returns
\* the same handle, and a call whose first attempt failed with an
\* authentication-shaped error returns the recreated handle instead of the
\* error.
C10_LazyReuseRefresh ==
    /\ (\A t \in Threads : pcs[t].calls = 0) => instance = 0
    /\ Cardinality(UNION {pcs[t].handles : t \in Threads}) <= 1
    /\ \A t \in Threads :
          (pcs[t].pc = "idle" /\ pcs[t].failed # <<>> /\ AuthShaped(pcs[t].failed))
              => (pcs[t].outcome = "ok" /\ pcs[t].handle = instance)

(***************************************************************************)
(* Properties of the tools and of the entry points, stated for SpecServer. *)
(***************************************************************************)
ToolDone == call.op = "tool" /\ call.pc = "done"

\* C11: every tool, called with any number of arguments and whatever fails
\* in session acquisition, the requests or the conversion, ends by returning
\* a text; when something failed the text is "Error: " followed by the
\* failure's message.
C11_ToolsReturnText ==
    ToolDone =>
        /\ call.result.kind \in {"plain", "json"}
        /\ call.failure # <<>> => call.result = ErrorText(call.failure)

\* A tool called with too many arguments has returned the error text.
C11_Witness ==
    /\ ToolDone
    /\ call.nargs > MaxArgs(call.tool)
    /\ call.failure = ArgumentCountError(call.tool)
    /\ call.result = ErrorText(call.failure)

\* C12: while SPECKLE_TOKEN is empty no entry point starts a listener, and
\* the process exits with a non-zero code.
C12_NoListenerWithoutToken ==
    ~speckle_token =>
        /\ server.state # "listening"
        /\ server.state = "exited" => server.exit_code # 0

\* The tool an endpoint is named after: the route written for the request
\* path itself, else the route whose parameters match it.
EndpointTool(request) ==
    IF \E i \in 1..Len(Routes) : Routes[i].pattern = request
    THEN Routes[CHOOSE i \in 1..Len(Routes) : Routes[i].pattern = request].tool
    ELSE Routes[FirstMatch(request)].tool

\* C13: a GET request to one of the six endpoints is dispatched to the tool
\* of the matching name with the request's parameters (arguments the tool
\* takes), and the response is the tool's result, parsed when it is JSON text.
C13_HttpMirror ==
    (call.op = "tool" /\ call.via = "http" /\ call.response # NoResponse) =>
        /\ call.tool = EndpointTool(call.request)
        /\ call.nargs \in MinArgs(call.tool)..MaxArgs(call.tool)
        /\ call.response = MaybeJson(call.result)

\* s is an initial part of t.
IsPrefix(s, t) == Len(s) <= Len(t) /\ SubSeq(t, 1, Len(s)) = s

\* C15: get_version_objects and query_object_properties take their external
\* steps in the order session, version record, transport, object graph,
\* conversion; when the version record is absent the tool returns "Version
\* <version_id> not found in project <project_id>." as a normal result and
\* neither a transport nor an object graph is made.
C15_FetchOrder ==
    (call.op = "tool" /\ call.tool \in GraphTools) =>
        /\ IsPrefix(call.steps, <<"session", "version", "transport", "receive", "convert">>)
        /\ call.version = "absent" =>
              /\ call.pc = "done"
              /\ call.failure = <<>>
              /\ call.result = VersionNotFound("v1", "p1")
              /\ call.result.parts[1] # "Error: "
              /\ call.steps = <<"session", "version">>
              /\ heap = <<>>

\* A run of a graph tool whose version record is absent.
C15_Witness ==
    /\ ToolDone
    /\ call.tool \in GraphTools
    /\ call.version = "absent"
    /\ call.result = VersionNotFound("v1", "p1")

\* A step in which a creation attempt of thread t fails.
FailedCreation(t) ==
    /\ pcs[t].pc \in {"get_create", "refresh_create"}
    /\ pcs'[t].pc \in {"except", "idle"}

\* C17: _instance is always None or a client whose authenticate_with_token
\* returned; a creation attempt that fails, in get_instance or in
\* refresh_instance, leaves _instance as it was, so with an empty token it
\* stays None and a failed refresh keeps the working handle.
C17_FailedCreationKeepsInstance ==
    /\ [](instance \in 0..created /\ (~speckle_token => instance = 0))
    /\ [][\A t \in Threads : FailedCreation(t) => instance' = instance]_vars

\* A refresh has failed and _instance holds the client another caller made.
C17_Witness ==
    /\ instance # 0
    /\ \E t \in Threads :
          /\ pcs[t].pc = "idle"
          /\ pcs[t].outcome = "error"
          /\ AuthShaped(pcs[t].failed)
          /\ pcs[t].raised \in AuthenticateErrors

====
